---- MODULE Spec2Model ----
(***************************************************************************)
(* Finance-Flow: the recurring-transaction materializer of App.tsx, the     *)
(* propagation of template edits, the ledger operations of the             *)
(* useFinanceData hook, and the figures of the Dashboard and PlanningView. *)
(*                                                                         *)
(* Representation.                                                         *)
(*  - A JavaScript Date is a record [y, m, d, t]: calendar year, month     *)
(*    (1..12), day and time of day (0 = 00:00:00.000, 1 = some instant     *)
(*    during the day, 2 = 23:59:59.999).  InvalidDate is `new Date(NaN)'.  *)
(*  - A date string "YYYY-MM-DD" is a record [year, month, day] holding    *)
(*    the three numbers that are printed; NoDate is the absent string.     *)
(*    parseISO turns a date string into a Date and rejects a day that the  *)
(*    month does not have.                                                 *)
(*  - The transactions and recurring arrays are kept as the sets of their  *)
(*    elements: ids are unique in both, so the set is the array up to its  *)
(*    order, and the order (the sort by date of addTransactions) is read   *)
(*    by none of the operations modelled here.                             *)
(***************************************************************************)
EXTENDS Integers, FiniteSets, Sequences, TLC

VARIABLES
    today,          \* the value `new Date()' returns, a Date
    futureMonths,   \* months added to today for futureLimit (differs by revision)
    recurring,      \* useFinanceData: recurring templates
    transactions,   \* useFinanceData: transactions
    nextId,         \* Date.now() as used for `rec-${Date.now()}'
    dirty,          \* a render is pending: the materialization effect will run
    ops,            \* number of user operations so far
    lastOp,         \* name of the last step of the ledger
    pending,        \* pendingLaunches computed by the last effect run
    runDate,        \* today of the last effect run (InvalidDate: none yet)
    lastEdit,       \* the last handleUpdateRecurringWithImpact call (NoEdit: none)
    budgets,        \* useFinanceData: budgets
    filterPeriod,   \* Dashboard: filterPeriod
    customRange,    \* Dashboard: customRange, two date strings
    shown,          \* the figures of the last render of the views (NotShown: not tracked)
    hook,           \* the file of the useFinanceData revision in use
    userCategories, \* useFinanceData: categories, by id
    db,             \* the tables of the persistence handler
    net,            \* the apiPost calls awaited, in the order they were made
    lastPost        \* the POST whose answer arrived last (NoPost: none)

\* The state the views read besides the ledger.
viewVars == <<budgets, filterPeriod, customRange, shown>>

\* The state of the hook revisions that save through the persistence handler.
cloudVars == <<hook, userCategories, db, net, lastPost>>

vars == <<today, futureMonths, recurring, transactions, nextId, dirty, ops,
          lastOp, pending, runDate, lastEdit, budgets, filterPeriod, customRange,
          shown, hook, userCategories, db, net, lastPost>>

----------------------------------------------------------------------------
(* Bounds of the model *)

MaxOps == 3
MaxTemplates == 2

(* Program constants *)

PastMonths == 12
FutureMonthsApp == 1
FutureMonthsPart005 == 13

----------------------------------------------------------------------------
(* Calendar and date-fns *)

InvalidDate == [y |-> 0, m |-> 0, d |-> 0, t |-> 0]
NoDate == [year |-> 0, month |-> 0, day |-> 0]
NaN == 0 - 1

isLeapYear(y) == (y % 400 = 0) \/ (y % 4 = 0 /\ y % 100 # 0)

getDaysInMonth(y, m) ==
    IF m = 2 THEN (IF isLeapYear(y) THEN 29 ELSE 28)
    ELSE IF m \in {4, 6, 9, 11} THEN 30 ELSE 31

\* An order-preserving encoding of Date.getTime(); NaN for an Invalid Date.
getTime(D) ==
    IF D = InvalidDate THEN NaN
    ELSE ((D.y * 12 + (D.m - 1)) * 32 + D.d) * 3 + D.t

isBefore(a, b) == getTime(a) # NaN /\ getTime(b) # NaN /\ getTime(a) < getTime(b)
isAfter(a, b) == getTime(a) # NaN /\ getTime(b) # NaN /\ getTime(a) > getTime(b)

isWithinInterval(D, start, end) ==
    LET time == getTime(D)
    IN  time # NaN /\ time >= getTime(start) /\ time <= getTime(end)

\* parseISO of "YYYY-MM-DD": local midnight of that day, or Invalid Date when
\* the month has no such day.
parseISO(s) ==
    IF s.month \in 1..12 /\ s.day >= 1 /\ s.day <= getDaysInMonth(s.year, s.month)
    THEN [y |-> s.year, m |-> s.month, d |-> s.day, t |-> 0]
    ELSE InvalidDate

\* format(D, 'yyyy-MM-dd')
format(D) == [year |-> D.y, month |-> D.m, day |-> D.d]

startOfMonth(D) ==
    IF D = InvalidDate THEN InvalidDate ELSE [D EXCEPT !.d = 1, !.t = 0]

endOfMonth(D) ==
    IF D = InvalidDate THEN InvalidDate
    ELSE [D EXCEPT !.d = getDaysInMonth(D.y, D.m), !.t = 2]

\* addMonths keeps the day of the month, clamped to the length of the target
\* month, and the time of day.
addMonths(D, n) ==
    IF D = InvalidDate THEN InvalidDate
    ELSE LET idx == D.y * 12 + (D.m - 1) + n
             ny  == idx \div 12
             nm  == (idx % 12) + 1
             dim == getDaysInMonth(ny, nm)
         IN  [y |-> ny, m |-> nm, d |-> IF D.d >= dim THEN dim ELSE D.d, t |-> D.t]

----------------------------------------------------------------------------
(* App.tsx: generateRecurringTransaction *)

AbsOmitted(x) == x

abs(x) == IF x < 0 THEN -x ELSE x

PadStartOmitted(n) == ToString(n)

padStart2(n) == IF n < 10 THEN "0" \o ToString(n) ELSE ToString(n)

generateRecurringTransaction(item, date) ==
    LET year  == date.y
        month == padStart2(date.m)
    IN  [ id          |-> "rec-commit-" \o item.id \o "-" \o ToString(year) \o "-" \o month,
          date        |-> [year |-> year, month |-> date.m, day |-> item.dayOfMonth],
          description |-> item.description,
          amount      |-> IF item.type = "expense" THEN -abs(item.amount) ELSE abs(item.amount),
          categoryId  |-> item.categoryId,
          type        |-> item.type,
          isRecurring |-> TRUE,
          recurringId |-> item.id ]

----------------------------------------------------------------------------
(* App.tsx: the recurring materialization effect *)

\* `item.endDate && isAfter(currentCheck, parseISO(item.endDate))': the break.
NeverPastEndDate(item, currentCheck) == FALSE

pastEndDate(item, currentCheck) ==
    item.endDate # NoDate /\ isAfter(currentCheck, parseISO(item.endDate))

\* parseISO(t.date) of the transactions t with t.recurringId === item.id: the
\* dates the `some' of the loop tests.  They do not change during the loop, so
\* they are computed once per item.
LaunchedOfAnyTemplate(item, txs) == {parseISO(t.date) : t \in txs}

launchedDates(item, txs) ==
    {parseISO(t.date) : t \in {x \in txs : x.recurringId = item.id}}

alreadyLaunched(launched, currentCheck) ==
    LET startOfM == startOfMonth(currentCheck)
        endOfM   == endOfMonth(currentCheck)
    IN  \E D \in launched : isWithinInterval(D, startOfM, endOfM)

\* The while loop, from currentCheck on: the transactions it pushes.
RECURSIVE walk(_, _, _, _)
walk(item, currentCheck, futureLimit, launched) ==
    IF ~isBefore(currentCheck, futureLimit) THEN {}
    ELSE IF pastEndDate(item, currentCheck) THEN {}
    ELSE (IF alreadyLaunched(launched, currentCheck) THEN {}
          ELSE {generateRecurringTransaction(item, currentCheck)})
         \cup walk(item, addMonths(currentCheck, 1), futureLimit, launched)

\* First month the loop looks at.
scanStart(item, now) ==
    startOfMonth(IF item.startDate # NoDate THEN parseISO(item.startDate)
                 ELSE startOfMonth(addMonths(now, -PastMonths)))

LaunchesIgnoringActive(item, txs, now, fm) ==
    walk(item, scanStart(item, now), addMonths(now, fm), launchedDates(item, txs))

\* The body of recurring.forEach for one item.
launchesOf(item, txs, now, fm) ==
    IF ~item.active THEN {}
    ELSE walk(item, scanStart(item, now), addMonths(now, fm), launchedDates(item, txs))

\* pendingLaunches after the forEach.
pendingLaunches(rec, txs, now, fm) ==
    UNION {launchesOf(item, txs, now, fm) : item \in rec}

----------------------------------------------------------------------------
(* useFinanceData *)

AddWithoutIdFilter(prev, newItems) == prev \cup newItems

addTransactions(prev, newItems) ==
    LET existingIds == {t.id : t \in prev}
        filtered    == {item \in newItems : item.id \notin existingIds}
    IN  IF filtered = {} THEN prev ELSE prev \cup filtered

updateTransaction(prev, id, categoryId) ==
    {IF t.id = id THEN [t EXCEPT !.categoryId = categoryId] ELSE t : t \in prev}

deleteTransaction(prev, id) == {t \in prev : t.id # id}

\* updateTransaction(id, updates) with a whole transaction as updates:
\* prev.map(t => t.id === id ? { ...t, ...updates } : t)
mergeTransaction(prev, id, updates) ==
    {IF t.id = id THEN updates ELSE t : t \in prev}

\* updateRecurring(id, updates), updates holding the seven fields of the form:
\* prev.map(r => r.id === id ? { ...r, ...updates } : r)
updateRecurring(prev, id, updates) ==
    {IF r.id = id
     THEN [r EXCEPT !.description = updates.description, !.amount = updates.amount,
                    !.categoryId = updates.categoryId, !.type = updates.type,
                    !.dayOfMonth = updates.dayOfMonth,
                    !.startDate = updates.startDate, !.endDate = updates.endDate]
     ELSE r : r \in prev}

----------------------------------------------------------------------------
(* App.tsx: handleUpdateRecurringWithImpact *)

EveryTransaction(txs, id) == txs

\* transactions.filter(t => t.recurringId === id)
transactionsOf(txs, id) == {t \in txs : t.recurringId = id}

SignedByUpdatedType(t, updates) ==
    IF updates.type = "expense" THEN -abs(updates.amount) ELSE abs(updates.amount)

\* t.type === 'expense' ? -Math.abs(updates.amount) : Math.abs(updates.amount)
propagatedAmount(t, updates) ==
    IF t.type = "expense" THEN -abs(updates.amount) ELSE abs(updates.amount)

\* updatedTransactions: the .map over the filtered transactions.
updatedTransactions(txs, id, updates) ==
    {[t EXCEPT !.description = updates.description,
               !.amount = propagatedAmount(t, updates),
               !.categoryId = updates.categoryId] : t \in transactionsOf(txs, id)}

\* updatedTransactions.forEach(t => updateTransaction(t.id, t)): the updater
\* functions applied one after the other to the transactions state.
RECURSIVE applyUpdates(_, _)
applyUpdates(prev, updated) ==
    IF updated = {} THEN prev
    ELSE LET u == CHOOSE x \in updated : TRUE
         IN  applyUpdates(mergeTransaction(prev, u.id, u), updated \ {u})

PropagateAlways(txs, id, updates, impactPast) ==
    applyUpdates(txs, updatedTransactions(txs, id, updates))

\* The transactions state after the handler.
propagate(txs, id, updates, impactPast) ==
    IF impactPast THEN applyUpdates(txs, updatedTransactions(txs, id, updates))
    ELSE txs

----------------------------------------------------------------------------
(* Inputs *)

\* What the recurring form is submitted with: a quick suggestion of PlanningView
\* (description, type, category) and the amount typed in.
Forms == {[description |-> "Conta de Energia", type |-> "expense",
           categoryId |-> "cat-outras-despesas", amount |-> 120],
          [description |-> "Rendimento Stocks", type |-> "income",
           categoryId |-> "cat-stocks", amount |-> -75]}
Categories == {"cat-outras-despesas", "cat-stocks"}
Days == {5, 31}
StartDates == {NoDate,
               [year |-> 2022, month |-> 11, day |-> 10],
               [year |-> 2024, month |-> 1, day |-> 20]}
EndDates == {NoDate,
             [year |-> 2024, month |-> 1, day |-> 10]}
StartTodays == {[y |-> 2024, m |-> 1, d |-> 31, t |-> 1]}

\* The user edits and deletes transactions dated in these months.
EditMonths == {[year |-> 2024, month |-> 1], [year |-> 2024, month |-> 2]}

monthOf(t) == [year |-> t.date.year, month |-> t.date.month]

\* PlanningView.handleSubmitRecurring: id: `rec-${Date.now()}'
TemplateId(k) == "rec-" \o ToString(k)

NoEdit == [id |-> "", impactPast |-> FALSE]
NotShown == [rendered |-> FALSE]

\* The ids of DEFAULT_CATEGORIES the model uses.
DefaultCategoryIds == {"cat-comida", "cat-outras-despesas", "cat-unassigned"}

EmptyDb == [transactions |-> {}, categories |-> {}, budgets |-> {}, recurring |-> {}]
NoPost == [userId |-> "", action |-> "", body |-> [id |-> ""]]

\* The hook of src/hooks/useFinanceData.ts keeps its state in localStorage:
\* it makes no call to the persistence handler.
LocalStorageHook ==
    /\ hook = "src/hooks/useFinanceData.ts"
    /\ userCategories = DefaultCategoryIds
    /\ db = EmptyDb
    /\ net = <<>>
    /\ lastPost = NoPost

nextDay(D) ==
    IF D.d < getDaysInMonth(D.y, D.m) THEN [D EXCEPT !.d = D.d + 1]
    ELSE [addMonths([D EXCEPT !.d = 1], 1) EXCEPT !.d = 1]

----------------------------------------------------------------------------
(* State machine *)

Init ==
    /\ today \in StartTodays
    /\ futureMonths \in {FutureMonthsApp, FutureMonthsPart005}
    /\ recurring = {}
    /\ transactions = {}
    /\ nextId = 1
    /\ dirty = FALSE
    /\ ops = 0
    /\ lastOp = "init"
    /\ pending = {}
    /\ runDate = InvalidDate
    /\ lastEdit = NoEdit
    /\ budgets = {}
    /\ filterPeriod = "month"
    /\ customRange = [start |-> format(startOfMonth(today)), end |-> format(today)]
    /\ shown = NotShown
    /\ LocalStorageHook

\* A user operation: handled between renders, once the effects have run.
UserOp(name) ==
    /\ ~dirty
    /\ ops < MaxOps
    /\ ops' = ops + 1
    /\ lastOp' = name
    /\ lastEdit' = NoEdit
    /\ UNCHANGED <<futureMonths, pending, runDate>>
    /\ UNCHANGED viewVars
    /\ UNCHANGED cloudVars

\* PlanningView.handleSubmitRecurring -> useFinanceData.addRecurring, with the
\* form filled from the given sets.
AddRecurringWith(forms, days, startDates, endDates) ==
    /\ UserOp("addRecurring")
    /\ Cardinality(recurring) < MaxTemplates
    /\ \E f \in forms, day \in days, sd \in startDates, ed \in endDates :
          recurring' = recurring \cup
              {[ id |-> TemplateId(nextId), active |-> TRUE,
                 description |-> f.description, amount |-> f.amount,
                 categoryId |-> f.categoryId, type |-> f.type, dayOfMonth |-> day,
                 startDate |-> sd, endDate |-> ed ]}
    /\ nextId' = nextId + 1
    /\ dirty' = TRUE
    /\ UNCHANGED <<today, transactions>>

AddRecurring == AddRecurringWith(Forms, Days, StartDates, EndDates)

\* useFinanceData.removeRecurring
RemoveRecurring ==
    /\ UserOp("removeRecurring")
    /\ \E r \in recurring : recurring' = recurring \ {r}
    /\ dirty' = TRUE
    /\ UNCHANGED <<today, transactions, nextId>>

\* useFinanceData.updateRecurring(id, {active})
SetActive ==
    /\ UserOp("updateRecurring")
    /\ \E r \in recurring, a \in BOOLEAN :
          /\ a # r.active
          /\ recurring' = (recurring \ {r}) \cup {[r EXCEPT !.active = a]}
    /\ dirty' = TRUE
    /\ UNCHANGED <<today, transactions, nextId>>

\* TransactionGrid.onUpdate(id, {categoryId}) -> useFinanceData.updateTransaction
UpdateTransaction ==
    /\ UserOp("updateTransaction")
    /\ \E t \in transactions, cat \in Categories :
          /\ monthOf(t) \in EditMonths
          /\ cat # t.categoryId
          /\ transactions' = updateTransaction(transactions, t.id, cat)
    /\ dirty' = TRUE
    /\ UNCHANGED <<today, recurring, nextId>>

\* TransactionGrid.onDelete(id) -> useFinanceData.deleteTransaction
DeleteTransaction ==
    /\ UserOp("deleteTransaction")
    /\ \E t \in transactions :
          /\ monthOf(t) \in EditMonths
          /\ transactions' = deleteTransaction(transactions, t.id)
    /\ dirty' = TRUE
    /\ UNCHANGED <<today, recurring, nextId>>

\* onCommitRecurring: addTransactions([generateRecurringTransaction(item, new Date())])
CommitRecurring ==
    /\ UserOp("commitRecurring")
    /\ \E item \in recurring :
          transactions' =
              addTransactions(transactions, {generateRecurringTransaction(item, today)})
    /\ dirty' = (transactions' # transactions)
    /\ UNCHANGED <<today, recurring, nextId>>

\* Time passes: the next `new Date()' is a day or a month later.
ClockAdvance ==
    /\ UserOp("clock")
    /\ today' \in {nextDay(today), addMonths(today, 1)}
    /\ UNCHANGED <<recurring, transactions, nextId, dirty>>

\* The page is loaded again: the hook reads back what it saved to localStorage
\* after every change, and the effects run on the first render.
Reload ==
    /\ ~dirty
    /\ lastOp # "reload"
    /\ lastOp' = "reload"
    /\ dirty' = TRUE
    /\ UNCHANGED <<today, futureMonths, recurring, transactions, nextId, ops,
                   pending, runDate, lastEdit>>
    /\ UNCHANGED viewVars
    /\ UNCHANGED cloudVars

\* The effect of App.tsx: runs after a render in which recurring or transactions
\* changed; addTransactions re-renders only when it returns a new array.
MaterializeEffect ==
    /\ dirty
    /\ lastOp' = "materialize"
    /\ runDate' = today
    /\ IF recurring = {}
       THEN /\ pending' = {}
            /\ transactions' = transactions
       ELSE /\ pending' = pendingLaunches(recurring, transactions, today, futureMonths)
            /\ transactions' = IF pending' # {}
                               THEN addTransactions(transactions, pending')
                               ELSE transactions
    /\ dirty' = (transactions' # transactions)
    /\ UNCHANGED <<today, futureMonths, recurring, nextId, ops, lastEdit>>
    /\ UNCHANGED viewVars
    /\ UNCHANGED cloudVars

Next ==
    \/ AddRecurring
    \/ RemoveRecurring
    \/ SetActive
    \/ UpdateTransaction
    \/ DeleteTransaction
    \/ CommitRecurring
    \/ ClockAdvance
    \/ Reload
    \/ MaterializeEffect

Spec == Init /\ [][Next]_vars

----------------------------------------------------------------------------
(* Editing a template: PlanningView's form in edit mode and the impact dialog *)

PlanForms == Forms
PlanDays == {5}
PlanStartDates == {[year |-> 2023, month |-> 12, day |-> 10],
                   [year |-> 2025, month |-> 6, day |-> 1]}
PlanEndDates == {NoDate}

\* What the form is changed to before it is submitted again.
EditForms == {[description |-> "Conta de Luz", type |-> "expense",
               categoryId |-> "cat-outras-despesas", amount |-> 150],
              [description |-> "Dividendos", type |-> "income",
               categoryId |-> "cat-stocks", amount |-> -90]}
EditStartDates == {[year |-> 2023, month |-> 10, day |-> 10]}

\* The updates handleSubmitRecurring builds for template r: the form holds the
\* template's own values (handleEditRecurring) except where the user changed it.
EditsOf(r) ==
    {[description |-> f.description, amount |-> f.amount, categoryId |-> f.categoryId,
      type |-> f.type, dayOfMonth |-> r.dayOfMonth, startDate |-> sd,
      endDate |-> r.endDate] : f \in EditForms, sd \in EditStartDates \cup {r.startDate}}

InitEdit == Init

PlanRecurring == AddRecurringWith(PlanForms, PlanDays, PlanStartDates, PlanEndDates)

\* confirmUpdate(impactPast) -> handleUpdateRecurringWithImpact(id, updates, impactPast)
UpdateRecurringWithImpact ==
    /\ ~dirty
    /\ ops < MaxOps
    /\ ops' = ops + 1
    /\ lastOp' = "updateRecurringWithImpact"
    /\ \E r \in recurring, impactPast \in BOOLEAN :
          \E updates \in EditsOf(r) :
              /\ recurring' = updateRecurring(recurring, r.id, updates)
              /\ transactions' = propagate(transactions, r.id, updates, impactPast)
              /\ lastEdit' = [id |-> r.id, impactPast |-> impactPast]
    /\ dirty' = TRUE
    /\ UNCHANGED <<today, futureMonths, nextId, pending, runDate>>
    /\ UNCHANGED viewVars
    /\ UNCHANGED cloudVars

NextEdit ==
    \/ PlanRecurring
    \/ UpdateRecurringWithImpact
    \/ UpdateTransaction
    \/ ClockAdvance
    \/ Reload
    \/ MaterializeEffect

SpecEdit == InitEdit /\ [][NextEdit]_vars

----------------------------------------------------------------------------
(* Dashboard and PlanningView: the figures computed from the ledger.         *)
(* An amount is an integer; a quotient is kept as the fraction [num, den]    *)
(* with den > 0.                                                             *)

\* arr.reduce((acc, t) => acc + t.amount, 0)
RECURSIVE sumAmount(_)
sumAmount(S) ==
    IF S = {} THEN 0
    ELSE LET t == CHOOSE x \in S : TRUE IN t.amount + sumAmount(S \ {t})

\* arr.reduce((acc, t) => acc + Math.abs(t.amount), 0)
RECURSIVE sumAbs(_)
sumAbs(S) ==
    IF S = {} THEN 0
    ELSE LET t == CHOOSE x \in S : TRUE IN abs(t.amount) + sumAbs(S \ {t})

\* date-fns isWithinInterval: version 2 throws RangeError('Invalid interval')
\* unless start <= end; version 3 sorts the two ends first.
DateFnsVersions == {2, 3}

validInterval(start, end) ==
    getTime(start) # NaN /\ getTime(end) # NaN /\ getTime(start) <= getTime(end)

isWithinSorted(D, a, b) ==
    IF getTime(a) = NaN \/ getTime(b) = NaN THEN FALSE
    ELSE IF getTime(a) <= getTime(b) THEN isWithinInterval(D, a, b)
    ELSE isWithinInterval(D, b, a)

\* transactions.filter(t => isWithinInterval(parseISO(t.date), { start, end })):
\* the callback runs once per transaction, so an empty array never throws.
filterInterval(lib, txs, start, end) ==
    IF lib = 2 /\ txs # {} /\ ~validInterval(start, end)
    THEN [threw |-> TRUE, items |-> {}]
    ELSE [threw |-> FALSE,
          items |-> {t \in txs : isWithinSorted(parseISO(t.date), start, end)}]

startOfYear(D) == [D EXCEPT !.m = 1, !.d = 1, !.t = 0]

\* Dashboard: filteredTransactions
filteredTransactions(lib, txs, now, period, range) ==
    IF period = "all" THEN [threw |-> FALSE, items |-> txs]
    ELSE IF period = "month"
         THEN filterInterval(lib, txs, startOfMonth(now), endOfMonth(now))
    ELSE IF period = "year"
         THEN filterInterval(lib, txs, startOfYear(now),
                             endOfMonth([now EXCEPT !.m = 12, !.d = 31, !.t = 0]))
    ELSE filterInterval(lib, txs, parseISO(range.start), parseISO(range.end))

isRecurringExpense(t) == t.isRecurring

\* Dashboard: stats
stats(items) ==
    LET income          == sumAmount({t \in items : t.type = "income"})
        expenses        == {t \in items : t.type = "expense"}
        totalExpense    == sumAbs(expenses)
        fixedExpense    == sumAbs({t \in expenses : isRecurringExpense(t)})
        variableExpense == totalExpense - fixedExpense
    IN  [income |-> income, expense |-> totalExpense, balance |-> income - totalExpense,
         fixedExpense |-> fixedExpense, variableExpense |-> variableExpense]

\* The categories prop, and the categories that get a budget card.
categories == {"cat-comida", "cat-outras-despesas", "cat-salario", "cat-unassigned"}
cardCategories ==
    {c \in categories :
        c \notin {"cat-salario", "cat-stocks", "cat-beneficios", "cat-unassigned"}}
activeCategories == {c \in categories : c # "cat-unassigned"}

WholeLedger(txs, now) == {t \in txs : t.type = "expense"}

\* PlanningView: currentMonthTransactions
currentMonthTransactions(txs, now) ==
    {t \in txs : t.type = "expense"
                   /\ isWithinInterval(parseISO(t.date), startOfMonth(now), endOfMonth(now))}

\* PlanningView: categorySpending.get(cat.id) || 0
categorySpending(txs, now, cat) ==
    sumAbs({t \in currentMonthTransactions(txs, now) : t.categoryId = cat})

\* budgets.find(b => b.categoryId === cat.id)?.amount || 0
budgetOf(bud, cat) ==
    IF \E b \in bud : b.categoryId = cat
    THEN (CHOOSE b \in bud : b.categoryId = cat).amount
    ELSE 0

ProjectedIsSpent(spent, now) == [num |-> spent, den |-> 1]

\* dayOfMonth > 0 ? (spent / dayOfMonth) * lastDay : 0
projected(spent, now) ==
    LET dayOfMonth == now.d
        lastDay    == endOfMonth(now).d
    IN  IF dayOfMonth > 0 THEN [num |-> spent * lastDay, den |-> dayOfMonth]
        ELSE [num |-> 0, den |-> 1]

HistoryThroughThisMonth(now) == endOfMonth(now)

\* endOfMonth(subMonths(now, 1))
historyEnd(now) == endOfMonth(addMonths(now, -1))

\* PlanningView: category12MonthAverage.get(cat.id) || 0
category12MonthAverage(txs, now, cat) ==
    LET startRange == startOfMonth(addMonths(now, -12))
        endRange   == historyEnd(now)
        relevantTransactions ==
            {t \in txs : t.type = "expense"
                           /\ isWithinInterval(parseISO(t.date), startRange, endRange)}
    IN  [num |-> sumAbs({t \in relevantTransactions : t.categoryId = cat}), den |-> 12]

\* The budget card of a category: PlanningView's spent, budget, average, isOver
\* and remaining, and the projected and willBeOver of its earlier revision.
card(txs, bud, now, cat) ==
    LET spent  == categorySpending(txs, now, cat)
        budget == budgetOf(bud, cat)
        proj   == projected(spent, now)
    IN  [spent |-> spent, budget |-> budget, remaining |-> budget - spent,
         isOver |-> (budget > 0 /\ spent > budget),
         projected |-> proj,
         willBeOver |-> (budget > 0 /\ proj.num > budget * proj.den),
         average |-> category12MonthAverage(txs, now, cat)]

\* Math.round of a fraction that is not negative.
round(f) == (2 * f.num + f.den) \div (2 * f.den)

HistoryMonths == 6

\* Dashboard.monthlyProjectionData: historicalAverages.get(cat.id) || 0
historicalAverage(txs, now, cat) ==
    LET historyStart == startOfMonth(addMonths(now, -HistoryMonths))
        historicalTransactions ==
            {t \in txs : t.type = "expense"
                           /\ isWithinInterval(parseISO(t.date), historyStart, historyEnd(now))}
    IN  [num |-> sumAbs({t \in historicalTransactions : t.categoryId = cat}),
         den |-> HistoryMonths]

\* Math.max(avg, budget)
maxOf(avg, budget) ==
    IF avg.num >= budget * avg.den THEN avg ELSE [num |-> budget * avg.den, den |-> avg.den]

\* Dashboard.monthlyProjectionData: dataPoint[cat.name] of month i
projectionPoint(txs, bud, now, cat, i) ==
    IF i = 0
    THEN LET actual   == categorySpending(txs, now, cat)
             estimate == [num |-> actual * endOfMonth(now).d,
                          den |-> IF now.d >= 1 THEN now.d ELSE 1]
             avg      == historicalAverage(txs, now, cat)
         IN  [num |-> IF estimate.num # 0 THEN round(estimate) ELSE round(avg), den |-> 1]
    ELSE maxOf(historicalAverage(txs, now, cat), budgetOf(bud, cat))

\* What the views show after a render, filtered being what filteredTransactions
\* came to.
render(filtered, txs, bud, now) ==
    [rendered |-> TRUE,
     threw |-> filtered.threw,
     stats |-> stats(filtered.items),
     cards |-> [c \in cardCategories |-> card(txs, bud, now, c)],
     projection |-> [c \in activeCategories |->
                        [i \in 0..3 |-> projectionPoint(txs, bud, now, c, i)]]]

\* The renders the installed date-fns allows.
renders(txs, bud, now, period, range) ==
    {render(filtered, txs, bud, now) :
        filtered \in {filteredTransactions(lib, txs, now, period, range)
                          : lib \in DateFnsVersions}}

\* useFinanceData.updateBudget
AppendBudget(prev, categoryId, amount) ==
    prev \cup {[categoryId |-> categoryId, amount |-> amount]}

updateBudget(prev, categoryId, amount) ==
    IF \E b \in prev : b.categoryId = categoryId
    THEN {IF b.categoryId = categoryId THEN [b EXCEPT !.amount = amount] ELSE b : b \in prev}
    ELSE prev \cup {[categoryId |-> categoryId, amount |-> amount]}

----------------------------------------------------------------------------
(* The views over a ledger: inputs and state machine.  The dates of this     *)
(* ledger are calendar dates, as imported rows and materialized days up to   *)
(* 28 are.                                                                   *)

entry(id, y, m, d, desc, amount, cat, type, rec) ==
    [id |-> id, date |-> [year |-> y, month |-> m, day |-> d], description |-> desc,
     amount |-> amount, categoryId |-> cat, type |-> type,
     isRecurring |-> (rec # ""), recurringId |-> rec]

\* January 2024: a salary, a materialized rent and a purchase.
January ==
    {entry("import-1-0", 2024, 1, 5, "Salario", 5000, "cat-salario", "income", ""),
     entry("rec-commit-rec-1-2024-01", 2024, 1, 10, "Aluguel", -1200,
           "cat-outras-despesas", "expense", "rec-1"),
     entry("import-1-1", 2024, 1, 20, "Mercado", -300, "cat-comida", "expense", "")}

\* 2023: 100 of food on the 15th of every month but March.
History ==
    {entry("import-0-" \o ToString(m), 2023, m, 15, "Feira", -100, "cat-comida",
           "expense", "") : m \in (1..12) \ {3}}

\* Rows imported later, one file at a time.
Entries ==
    {entry("import-2-0", 2023, 3, 15, "Feira", -100, "cat-comida", "expense", ""),
     entry("import-3-0", 2024, 4, 2, "Mercado", -300, "cat-comida", "expense", ""),
     entry("import-4-0", 2024, 1, 31, "Farmacia", -40, "cat-outras-despesas", "expense", ""),
     entry("import-5-0", 2024, 2, 1, "Reembolso", 700, "cat-salario", "income", "")}

StatsTodays == {[y |-> 2024, m |-> 1, d |-> 31, t |-> 1],
                [y |-> 2024, m |-> 4, d |-> 10, t |-> 1]}
Periods == {"month", "year", "all", "custom"}
Ranges == {[start |-> [year |-> 2024, month |-> 1, day |-> 1],
            end |-> [year |-> 2024, month |-> 1, day |-> 31]],
           [start |-> [year |-> 2024, month |-> 1, day |-> 31],
            end |-> [year |-> 2024, month |-> 1, day |-> 1]],
           [start |-> [year |-> 2024, month |-> 1, day |-> 31],
            end |-> [year |-> 2024, month |-> 1, day |-> 31]]}
BudgetCategories == {"cat-comida"}
BudgetAmounts == {0, 250, 500}

\* The render that follows a change of the state the views read.
Rendered ==
    shown' \in renders(transactions', budgets', today', filterPeriod', customRange')

InitStats ==
    /\ today \in StatsTodays
    /\ futureMonths = FutureMonthsApp
    /\ recurring = {}
    /\ transactions \in {{}, January \cup History}
    /\ nextId = 1
    /\ dirty = FALSE
    /\ ops = 0
    /\ lastOp = "init"
    /\ pending = {}
    /\ runDate = InvalidDate
    /\ lastEdit = NoEdit
    /\ budgets = {}
    /\ filterPeriod = "month"
    /\ customRange = [start |-> format(startOfMonth(today)), end |-> format(today)]
    /\ shown \in renders(transactions, budgets, today, filterPeriod, customRange)
    /\ LocalStorageHook

ledgerVars == <<today, futureMonths, recurring, nextId, dirty, lastOp, pending, runDate,
                lastEdit, hook, userCategories, db, net, lastPost>>

\* ImportWizard -> addTransactions
ImportTransactions ==
    /\ ops < MaxOps
    /\ ops' = ops + 1
    /\ \E e \in Entries : transactions' = addTransactions(transactions, {e})
    /\ transactions' # transactions
    /\ UNCHANGED <<budgets, filterPeriod, customRange>>
    /\ UNCHANGED ledgerVars
    /\ Rendered

\* Dashboard: setFilterPeriod
SetFilterPeriod ==
    /\ \E p \in Periods : p # filterPeriod /\ filterPeriod' = p
    /\ UNCHANGED <<transactions, budgets, customRange, ops>>
    /\ UNCHANGED ledgerVars
    /\ Rendered

\* Dashboard: setCustomRange
SetCustomRange ==
    /\ filterPeriod = "custom"
    /\ \E r \in Ranges : r # customRange /\ customRange' = r
    /\ UNCHANGED <<transactions, budgets, filterPeriod, ops>>
    /\ UNCHANGED ledgerVars
    /\ Rendered

\* PlanningView: onUpdateBudget -> useFinanceData.updateBudget
UpdateBudget ==
    /\ \E c \in BudgetCategories, a \in BudgetAmounts :
          /\ budgets' = updateBudget(budgets, c, a)
          /\ budgets' # budgets
    /\ UNCHANGED <<transactions, filterPeriod, customRange, ops>>
    /\ UNCHANGED ledgerVars
    /\ Rendered

NextStats ==
    \/ ImportTransactions
    \/ SetFilterPeriod
    \/ SetCustomRange
    \/ UpdateBudget

SpecStats == InitStats /\ [][NextStats]_vars

----------------------------------------------------------------------------
(* The persistence handler: hooks/useFinanceData.ts (second part) and        *)
(* api/finance.js.  A table is a set of rows [userId, item]; the primary key *)
(* of transactions, categories and recurring_templates is item.id alone, of  *)
(* budgets it is (userId, item.categoryId).                                  *)

\* INSERT INTO transactions ... ON CONFLICT (id) DO UPDATE SET date,
\* description, amount, category_id
upsertTransaction(rows, userId, t) ==
    IF \E x \in rows : x.item.id = t.id
    THEN {IF x.item.id = t.id
          THEN [x EXCEPT !.item.date = t.date, !.item.description = t.description,
                         !.item.amount = t.amount, !.item.categoryId = t.categoryId]
          ELSE x : x \in rows}
    ELSE rows \cup {[userId |-> userId, item |-> t]}

\* for (const t of body): the items of one body have different ids.
RECURSIVE upsertTransactions(_, _, _)
upsertTransactions(rows, userId, items) ==
    IF items = {} THEN rows
    ELSE LET t == CHOOSE x \in items : TRUE
         IN  upsertTransactions(upsertTransaction(rows, userId, t), userId, items \ {t})

\* INSERT INTO categories ... ON CONFLICT (id) DO UPDATE SET name, color
upsertCategory(rows, userId, cat) ==
    IF \E x \in rows : x.item.id = cat.id
    THEN {IF x.item.id = cat.id THEN [x EXCEPT !.item.name = cat.name] ELSE x : x \in rows}
    ELSE rows \cup {[userId |-> userId, item |-> cat]}

\* INSERT INTO budgets ... ON CONFLICT (user_id, category_id) DO UPDATE SET amount
upsertBudget(rows, userId, b) ==
    IF \E x \in rows : x.userId = userId /\ x.item.categoryId = b.categoryId
    THEN {IF x.userId = userId /\ x.item.categoryId = b.categoryId
          THEN [x EXCEPT !.item.amount = b.amount] ELSE x : x \in rows}
    ELSE rows \cup {[userId |-> userId, item |-> b]}

\* INSERT INTO recurring_templates ... ON CONFLICT (id) DO UPDATE SET
\* description, amount, active, category_id, day_of_month, start_date, end_date
upsertRecurring(rows, userId, r) ==
    IF \E x \in rows : x.item.id = r.id
    THEN {IF x.item.id = r.id
          THEN [x EXCEPT !.item.description = r.description, !.item.amount = r.amount,
                         !.item.active = r.active, !.item.categoryId = r.categoryId,
                         !.item.dayOfMonth = r.dayOfMonth,
                         !.item.startDate = r.startDate, !.item.endDate = r.endDate]
          ELSE x : x \in rows}
    ELSE rows \cup {[userId |-> userId, item |-> r]}

\* The switch of the POST branch.
handler(d, userId, action, body) ==
    CASE action = "addTransactions" ->
            [d EXCEPT !.transactions = upsertTransactions(@, userId, body.items)]
      [] action = "updateTransaction" ->
            [d EXCEPT !.transactions =
                {IF x.item.id = body.id /\ x.userId = userId
                 THEN [x EXCEPT !.item.date = body.date,
                                !.item.description = body.description,
                                !.item.amount = body.amount,
                                !.item.categoryId = body.categoryId]
                 ELSE x : x \in @}]
      [] action = "deleteTransaction" ->
            [d EXCEPT !.transactions =
                {x \in @ : ~(x.item.id = body.id /\ x.userId = userId)}]
      [] action = "saveCategory" ->
            [d EXCEPT !.categories = upsertCategory(@, userId, body)]
      [] action = "deleteCategory" ->
            [d EXCEPT !.categories =
                          {x \in @ : ~(x.item.id = body.id /\ x.userId = userId)},
                      !.transactions =
                          {IF x.item.categoryId = body.id /\ x.userId = userId
                           THEN [x EXCEPT !.item.categoryId = "cat-unassigned"]
                           ELSE x : x \in @},
                      !.budgets =
                          {x \in @ : ~(x.item.categoryId = body.id /\ x.userId = userId)}]
      [] action = "updateBudget" ->
            [d EXCEPT !.budgets = upsertBudget(@, userId, body)]
      [] action = "saveRecurring" ->
            [d EXCEPT !.recurring = upsertRecurring(@, userId, body)]
      [] action = "deleteRecurring" ->
            [d EXCEPT !.recurring =
                {x \in @ : ~(x.item.id = body.id /\ x.userId = userId)}]

\* The GET branch: the four SELECT ... WHERE user_id = $1.
GET(d, userId) ==
    [transactions |-> {x.item : x \in {y \in d.transactions : y.userId = userId}},
     categories   |-> {x.item : x \in {y \in d.categories : y.userId = userId}},
     budgets      |-> {x.item : x \in {y \in d.budgets : y.userId = userId}},
     recurring    |-> {x.item : x \in {y \in d.recurring : y.userId = userId}}]

----------------------------------------------------------------------------
(* The persistence handler called by two users: inputs and state machine.    *)

\* DEFAULT_USER.id and the id of another user.
Users == {"main-user", "other-user"}

ApiTransactions ==
    {entry("rec-commit-rec-1-2024-01", 2024, 1, 10, "Aluguel", -1200,
           "cat-comida", "expense", "rec-1"),
     entry("rec-commit-rec-1-2024-01", 2024, 1, 10, "Aluguel", -1500,
           "cat-comida", "expense", "rec-1")}

ApiCategories == {[id |-> "cat-comida", name |-> "Comida & Bebida"],
                  [id |-> "cat-comida", name |-> "Mercado"]}

ApiBudgets == {[categoryId |-> "cat-comida", amount |-> 250],
               [categoryId |-> "cat-comida", amount |-> 500]}

ApiRecurring ==
    {[id |-> "rec-1", active |-> TRUE, description |-> "Aluguel", amount |-> a,
      categoryId |-> "cat-comida", type |-> "expense", dayOfMonth |-> 10,
      startDate |-> NoDate, endDate |-> NoDate] : a \in {1200, 1500}}

\* The POST requests: action and body.
ApiCalls ==
    {[action |-> "addTransactions", body |-> [items |-> {t}]] : t \in ApiTransactions}
    \cup {[action |-> "updateTransaction", body |-> t] : t \in ApiTransactions}
    \cup {[action |-> "deleteTransaction", body |-> [id |-> t.id]] : t \in ApiTransactions}
    \cup {[action |-> "saveCategory", body |-> c] : c \in ApiCategories}
    \cup {[action |-> "deleteCategory", body |-> [id |-> c.id]] : c \in ApiCategories}
    \cup {[action |-> "updateBudget", body |-> b] : b \in ApiBudgets}
    \cup {[action |-> "saveRecurring", body |-> r] : r \in ApiRecurring}
    \cup {[action |-> "deleteRecurring", body |-> [id |-> r.id]] : r \in ApiRecurring}

InitApi ==
    /\ Init
    /\ futureMonths = FutureMonthsApp

\* One POST of one user, answered 200.
Post ==
    /\ \E userId \in Users : \E call \in ApiCalls :
          /\ db' = handler(db, userId, call.action, call.body)
          /\ lastPost' = [userId |-> userId, action |-> call.action, body |-> call.body]
    /\ UNCHANGED <<today, futureMonths, recurring, transactions, nextId, dirty, ops,
                   lastOp, pending, runDate, lastEdit, hook, userCategories, net>>
    /\ UNCHANGED viewVars

\* The clients of the two users are not part of this specification.
NextApi == Post

SpecApi == InitApi /\ [][NextApi]_vars

----------------------------------------------------------------------------
(* useFinanceData with the persistence handler (components/CategoryManager   *)
(* .tsx, second part, and unnamed/part_003): every mutation awaits           *)
(* apiPost(action, body) and, when that succeeded, sets the state with a     *)
(* functional update.  The requests reach the handler, and their answers the *)
(* hook, in any order.  Every request is answered 200, and part_003 stays    *)
(* online.                                                                   *)

MaxCloudOps == 3
MaxInFlight == 2
MaxCloudTemplates == 1

CloudHooks == {"src/components/CategoryManager.tsx", "src/unnamed/part_003"}

AppendWithoutIdFilter(prev, newItems) == prev \cup newItems

\* The update of addTransactions: prev.concat(filtered).sort(...), a new array
\* also when filtered is empty.
appendTransactions(prev, newItems) ==
    LET existingIds == {t.id : t \in prev}
        filtered    == {item \in newItems : item.id \notin existingIds}
    IN  prev \cup filtered

\* The three (part_003: two) updates of deleteCategory, on the state
\* [transactions, budgets, userCategories].
deleteCategory(rev, st, id) ==
    [transactions   |-> {IF t.categoryId = id
                         THEN [t EXCEPT !.categoryId = "cat-unassigned"]
                         ELSE t : t \in st.transactions},
     budgets        |-> IF rev = "src/unnamed/part_003" THEN st.budgets
                        ELSE {b \in st.budgets : b.categoryId # id},
     userCategories |-> st.userCategories \ {id}]

\* PlanningView (part_000): the commit button of a template is offered while no
\* transaction of this month has its description.  The descriptions of the
\* model differ by more than case and outer blanks.
isCommitted(item, txs, now) ==
    \E t \in txs :
        /\ isWithinInterval(parseISO(t.date), startOfMonth(now), endOfMonth(now))
        /\ t.description = item.description

(* Inputs *)

CloudForms == {[description |-> "Conta de Energia", type |-> "expense",
                categoryId |-> "cat-outras-despesas", amount |-> 120]}
CloudDays == {5}
CloudStartDates == {[year |-> 2023, month |-> 12, day |-> 10]}
CloudEdits == {[description |-> "Conta de Luz", amount |-> 150]}
CloudCategories == {"cat-comida"}
CloudDeleted == {"cat-outras-despesas"}
CloudBudgets == {[categoryId |-> "cat-outras-despesas", amount |-> a] : a \in {250, 500}}

(* State machine *)

\* After fetchData answered for a user without rows.
InitCloud ==
    /\ today \in StartTodays
    /\ futureMonths = FutureMonthsApp
    /\ recurring = {}
    /\ transactions = {}
    /\ nextId = 1
    /\ dirty = FALSE
    /\ ops = 0
    /\ lastOp = "init"
    /\ pending = {}
    /\ runDate = InvalidDate
    /\ lastEdit = NoEdit
    /\ budgets = {}
    /\ filterPeriod = "month"
    /\ customRange = [start |-> format(startOfMonth(today)), end |-> format(today)]
    /\ shown = NotShown
    /\ hook \in CloudHooks
    /\ userCategories = DefaultCategoryIds
    /\ db = EmptyDb
    /\ net = <<>>
    /\ lastPost = NoPost

\* apiPost(action, body), awaited by the function fn of the hook: the fetch is
\* sent.
apiPost(fn, action, body) ==
    /\ Len(net) < MaxInFlight
    /\ net' = Append(net, [fn |-> fn, action |-> action, body |-> body,
                           answered |-> FALSE])

\* A handler of the user interface calls an async function of the hook, which
\* awaits apiPost first: nothing of the state changes yet.
CloudOp(name) ==
    /\ ~dirty
    /\ ops < MaxCloudOps
    /\ ops' = ops + 1
    /\ lastOp' = name
    /\ UNCHANGED <<today, futureMonths, recurring, transactions, dirty, pending,
                   runDate, lastEdit, hook, userCategories, db, lastPost>>
    /\ UNCHANGED viewVars

\* addRecurring(item)
CloudAddRecurring ==
    /\ CloudOp("addRecurring")
    /\ nextId <= MaxCloudTemplates
    /\ \E f \in CloudForms, day \in CloudDays, sd \in CloudStartDates :
          apiPost("addRecurring", "saveRecurring",
                  [ id |-> TemplateId(nextId), active |-> TRUE,
                    description |-> f.description, amount |-> f.amount,
                    categoryId |-> f.categoryId, type |-> f.type, dayOfMonth |-> day,
                    startDate |-> sd, endDate |-> NoDate ])
    /\ nextId' = nextId + 1

\* handleUpdateRecurringWithImpact(id, updates, false) -> updateRecurring
CloudUpdateRecurring ==
    /\ CloudOp("updateRecurring")
    /\ \E item \in recurring, updates \in CloudEdits :
          /\ item.description # updates.description
          /\ apiPost("updateRecurring", "saveRecurring",
                     [item EXCEPT !.description = updates.description,
                                  !.amount = updates.amount])
    /\ UNCHANGED nextId

\* TransactionGrid.onUpdate(id, {categoryId}) -> updateTransaction
CloudUpdateTransaction ==
    /\ CloudOp("updateTransaction")
    /\ \E fullItem \in transactions, cat \in CloudCategories :
          /\ monthOf(fullItem) \in EditMonths
          /\ cat # fullItem.categoryId
          /\ apiPost("updateTransaction", "updateTransaction",
                     [fullItem EXCEPT !.categoryId = cat])
    /\ UNCHANGED nextId

\* TransactionGrid.onDelete(id) -> deleteTransaction
CloudDeleteTransaction ==
    /\ CloudOp("deleteTransaction")
    /\ \E t \in transactions :
          /\ monthOf(t) \in EditMonths
          /\ apiPost("deleteTransaction", "deleteTransaction", [id |-> t.id])
    /\ UNCHANGED nextId

\* CategoryManager.onDelete(id) -> deleteCategory
CloudDeleteCategory ==
    /\ CloudOp("deleteCategory")
    /\ \E id \in CloudDeleted \cap userCategories :
          apiPost("deleteCategory", "deleteCategory", [id |-> id])
    /\ UNCHANGED nextId

\* PlanningView.onUpdateBudget -> updateBudget, on a change of the amount shown
CloudUpdateBudget ==
    /\ CloudOp("updateBudget")
    /\ \E b \in CloudBudgets :
          /\ b \notin budgets
          /\ apiPost("updateBudget", "updateBudget", b)
    /\ UNCHANGED nextId

\* onCommitRecurring(item) -> addTransactions([generateRecurringTransaction(item, new Date())])
CloudCommitRecurring ==
    /\ CloudOp("commitRecurring")
    /\ \E item \in recurring :
          /\ ~isCommitted(item, transactions, today)
          /\ apiPost("addTransactions", "addTransactions",
                     [items |-> {generateRecurringTransaction(item, today)}])
    /\ UNCHANGED nextId

\* The effect of App.tsx after a render in which recurring or transactions is
\* a new array: it awaits nothing, addTransactions sends its request.
CloudMaterializeEffect ==
    /\ dirty
    /\ lastOp' = "materialize"
    /\ runDate' = today
    /\ dirty' = FALSE
    /\ IF recurring = {}
       THEN /\ pending' = {}
            /\ net' = net
       ELSE /\ pending' = pendingLaunches(recurring, transactions, today, futureMonths)
            /\ IF pending' # {}
               THEN apiPost("addTransactions", "addTransactions", [items |-> pending'])
               ELSE net' = net
    /\ UNCHANGED <<today, futureMonths, recurring, transactions, nextId, ops, lastEdit,
                   hook, userCategories, db, lastPost>>
    /\ UNCHANGED viewVars

\* The handler answers one of the requests sent.
HandlerAnswers ==
    /\ \E i \in 1..Len(net) :
          /\ ~net[i].answered
          /\ db' = handler(db, "main-user", net[i].action, net[i].body)
          /\ net' = [net EXCEPT ![i].answered = TRUE]
    /\ lastOp' = "handler"
    /\ UNCHANGED <<today, futureMonths, recurring, transactions, nextId, dirty, ops,
                   pending, runDate, lastEdit, hook, userCategories, lastPost>>
    /\ UNCHANGED viewVars

\* The state after the updates that follow `if (success)' in the function that
\* awaited the call.
resolved(call, st) ==
    CASE call.fn = "addTransactions" ->
            [st EXCEPT !.transactions = appendTransactions(@, call.body.items)]
      [] call.fn = "updateTransaction" ->
            [st EXCEPT !.transactions = mergeTransaction(@, call.body.id, call.body)]
      [] call.fn = "deleteTransaction" ->
            [st EXCEPT !.transactions = deleteTransaction(@, call.body.id)]
      [] call.fn = "deleteCategory" ->
            LET after == deleteCategory(st.hook, st, call.body.id)
            IN  [st EXCEPT !.transactions = after.transactions,
                           !.budgets = after.budgets,
                           !.userCategories = after.userCategories]
      [] call.fn = "updateBudget" ->
            [st EXCEPT !.budgets =
                updateBudget(@, call.body.categoryId, call.body.amount)]
      [] call.fn = "addRecurring" ->
            [st EXCEPT !.recurring = @ \cup {call.body}]
      [] call.fn = "updateRecurring" ->
            [st EXCEPT !.recurring =
                {IF r.id = call.body.id THEN call.body ELSE r : r \in @}]

\* An await of apiPost returns true, once the effects of the render before
\* have run.  The updates of transactions and of recurring produce a new array,
\* so the effect runs after the render.
Resolve ==
    /\ ~dirty
    /\ \E i \in 1..Len(net) :
          /\ net[i].answered
          /\ LET st == resolved(net[i],
                         [transactions |-> transactions, budgets |-> budgets,
                          userCategories |-> userCategories, recurring |-> recurring,
                          hook |-> hook])
             IN  /\ transactions' = st.transactions
                 /\ budgets' = st.budgets
                 /\ userCategories' = st.userCategories
                 /\ recurring' = st.recurring
          /\ dirty' = (net[i].fn # "updateBudget")
          /\ net' = SubSeq(net, 1, i - 1) \o SubSeq(net, i + 1, Len(net))
          /\ lastPost' = [userId |-> "main-user", action |-> net[i].action,
                          body |-> net[i].body]
    /\ lastOp' = "resolve"
    /\ UNCHANGED <<today, futureMonths, nextId, ops, pending, runDate, lastEdit, hook, db>>
    /\ UNCHANGED <<filterPeriod, customRange, shown>>

NextCloud ==
    \/ CloudAddRecurring
    \/ CloudUpdateRecurring
    \/ CloudUpdateTransaction
    \/ CloudDeleteTransaction
    \/ CloudDeleteCategory
    \/ CloudUpdateBudget
    \/ CloudCommitRecurring
    \/ CloudMaterializeEffect
    \/ HandlerAnswers
    \/ Resolve

SpecCloud == InitCloud /\ [][NextCloud]_vars

----------------------------------------------------------------------------
(* Vocabulary of the properties *)

\* Calendar order of date strings and Dates, by year, month and day as printed.
dayKey(year, month, day) == (year * 12 + (month - 1)) * 32 + day
strKey(s) == dayKey(s.year, s.month, s.day)
dateKey(D) == dayKey(D.y, D.m, D.d)
monthKey(s) == s.year * 12 + (s.month - 1)

templateOf(p) == CHOOSE r \in recurring : r.id = p.recurringId

\* The effect has just run: pending is what it synthesized at runDate from the
\* templates in recurring.
Materialized == lastOp = "materialize"

TwoDigits == <<"01", "02", "03", "04", "05", "06", "07", "08", "09", "10", "11", "12">>

----------------------------------------------------------------------------
(* C1: materializing again, right after the synthesized transactions were    *)
(* appended, synthesizes nothing: materialize(T, X + materialize(T,X,d), d)  *)
(* is empty, for every dayOfMonth in 1..31.                                  *)
C1_Idempotent ==
    pendingLaunches(recurring,
                    addTransactions(transactions,
                        pendingLaunches(recurring, transactions, today, futureMonths)),
                    today, futureMonths) = {}

(* C2: no two transactions of the ledger have the same recurringId and a     *)
(* date in the same calendar month.                                          *)
C2_OnePerTemplateMonth ==
    \A t1 \in transactions : \A t2 \in transactions :
        (t1.recurringId = t2.recurringId /\ monthOf(t1) = monthOf(t2)) => t1 = t2

\* After user operations the materializer appended a month of a template next
\* to the months that template already had.
C2_Witness ==
    /\ Materialized
    /\ ops >= 2
    /\ \E p \in pending : \E t \in transactions \ pending :
          /\ p \in transactions
          /\ parseISO(p.date) # InvalidDate
          /\ t.recurringId = p.recurringId
          /\ monthOf(t) # monthOf(p)

(* C3: no synthesized transaction is dated before the first day of the month *)
(* of today - 12 months, or after today + 13 months.                         *)
C3_WindowBound ==
    Materialized =>
        \A p \in pending :
            /\ strKey(p.date) >= dateKey(startOfMonth(addMonths(runDate, -12)))
            /\ strKey(p.date) <= dateKey(addMonths(runDate, 13))

(* C4: for a template with an endDate, no synthesized transaction is dated   *)
(* in a calendar month after the month of endDate.                           *)
C4_EndDateRespected ==
    Materialized =>
        \A p \in pending :
            templateOf(p).endDate # NoDate =>
                monthKey(p.date) <= monthKey(templateOf(p).endDate)

\* The month of endDate was synthesized and the walk had further months to
\* look at before futureLimit.
C4_Witness ==
    /\ Materialized
    /\ \E p \in pending :
          /\ templateOf(p).endDate # NoDate
          /\ monthKey(p.date) = monthKey(templateOf(p).endDate)
          /\ isBefore(addMonths(startOfMonth(parseISO(templateOf(p).endDate)), 1),
                      addMonths(runDate, futureMonths))

(* C5: every synthesized date is a valid calendar date: the template's       *)
(* dayOfMonth, or the last day of the month when the month is shorter.       *)
C5_DayClamped ==
    Materialized =>
        \A p \in pending :
            LET last == getDaysInMonth(p.date.year, p.date.month)
                day  == templateOf(p).dayOfMonth
            IN  p.date.day = IF day > last THEN last ELSE day

(* C6: a materializer run synthesizes nothing for a template that is not     *)
(* active, and keeps every transaction of such a template as it was.         *)
C6_InactiveUntouched ==
    [][lastOp' = "materialize" =>
          \A r \in recurring :
              ~r.active =>
                  /\ \A p \in pending' : p.recurringId # r.id
                  /\ {t \in transactions' : t.recurringId = r.id}
                        = {t \in transactions : t.recurringId = r.id}]_vars

\* An inactive template with earlier transactions and a month of its window
\* without one, after a run of the materializer.
C6_Witness ==
    /\ Materialized
    /\ \E r \in recurring :
          /\ ~r.active
          /\ \E t \in transactions : t.recurringId = r.id
          /\ LaunchesIgnoringActive(r, transactions, runDate, futureMonths) # {}

(* C7: a synthesized transaction has the id rec-commit-{template id}-{year}- *)
(* {month, two digits}, with the year and month of its own date.             *)
C7_IdFormat ==
    Materialized =>
        \A p \in pending :
            p.id = "rec-commit-" \o p.recurringId \o "-" \o ToString(p.date.year)
                       \o "-" \o TwoDigits[p.date.month]

\* Months below and above 10 were synthesized.
C7_Witness ==
    /\ Materialized
    /\ \E p \in pending : p.date.month < 10
    /\ \E p \in pending : p.date.month >= 10

(* C8: a synthesized transaction has the template's type and categoryId,     *)
(* isRecurring, the template's id as recurringId, and the template's amount  *)
(* in magnitude, negative for an expense and positive for an income.         *)
C8_Fields ==
    Materialized =>
        \A p \in pending :
            \E r \in recurring :
                /\ p.recurringId = r.id
                /\ p.type = r.type
                /\ p.categoryId = r.categoryId
                /\ p.isRecurring = TRUE
                /\ p.amount * p.amount = r.amount * r.amount
                /\ (r.type = "expense" => p.amount <= 0)
                /\ (r.type = "income" => p.amount >= 0)

\* An expense and an income of a template whose amount was entered negative.
C8_Witness ==
    /\ Materialized
    /\ \E p \in pending : p.type = "expense" /\ p.amount < 0
    /\ \E p \in pending : p.type = "income" /\ templateOf(p).amount < 0

(* C9: a template whose startDate is later than its endDate has no           *)
(* synthesized transaction.                                                  *)
C9_StartAfterEnd ==
    Materialized =>
        \A p \in pending :
            LET r == templateOf(p)
            IN  ~(r.startDate # NoDate /\ r.endDate # NoDate
                    /\ strKey(r.startDate) > strKey(r.endDate))

(* C10: a materializer run at a later date than the run before synthesizes   *)
(* no transaction for a template and month that already have a transaction.  *)
C10_NoRecreation ==
    [][(lastOp' = "materialize" /\ isBefore(runDate, today)) =>
          \A p \in pending' :
              ~\E x \in transactions :
                  x.recurringId = p.recurringId /\ monthOf(x) = monthOf(p)]_vars

----------------------------------------------------------------------------
(* Vocabulary of the propagation properties *)

Edited == lastOp = "updateRecurringWithImpact"

\* The ledger after the materialization effect has run on templates rec and
\* transactions txs.
afterEffect(rec, txs) ==
    LET launches == pendingLaunches(rec, txs, today, futureMonths)
    IN  IF rec = {} \/ launches = {} THEN txs ELSE addTransactions(txs, launches)

\* The transactions dated in a calendar month before the month of today.
pastMonths(txs) == {t \in txs : monthKey(t.date) < today.y * 12 + (today.m - 1)}

sameTemplateMonth(a, b) == a.recurringId = b.recurringId /\ monthOf(a) = monthOf(b)

(* C11: a template edit with impactPast = false changes no transaction and   *)
(* no other template, and the materializer run that follows keeps every      *)
(* existing transaction as it is and adds none for a template and month that *)
(* already have one.                                                         *)
C11_PropagationIsolation ==
    [][/\ (lastOp' = "updateRecurringWithImpact" /\ ~lastEdit'.impactPast) =>
              /\ transactions' = transactions
              /\ {r \in recurring' : r.id # lastEdit'.id}
                    = {r \in recurring : r.id # lastEdit'.id}
       /\ (lastOp' = "materialize" /\ lastEdit # NoEdit /\ ~lastEdit.impactPast) =>
              /\ transactions \subseteq transactions'
              /\ \A p \in transactions' \ transactions :
                     \A x \in transactions : ~sameTemplateMonth(p, x)]_vars

\* After an edit that kept the past and the materializer run that followed,
\* the edited template has a transaction with a description the template no
\* longer has, next to a newly synthesized one with the new description.
C11_Witness ==
    /\ Materialized
    /\ lastEdit # NoEdit
    /\ ~lastEdit.impactPast
    /\ \E r \in recurring :
          /\ r.id = lastEdit.id
          /\ \E t \in transactions \ pending :
                t.recurringId = r.id /\ t.description # r.description
          /\ \E p \in pending :
                p \in transactions /\ p.recurringId = r.id /\ p.description = r.description

(* C12: a template edit with impactPast = true gives every transaction of    *)
(* the template the new description and categoryId and the new amount in     *)
(* magnitude, negative when the transaction's own type is expense and        *)
(* positive when it is income, whatever the template's new type.             *)
C12_PropagationRewrites ==
    [][(lastOp' = "updateRecurringWithImpact" /\ lastEdit'.impactPast) =>
          \A r \in recurring' :
              r.id = lastEdit'.id =>
                  \A t \in transactions :
                      t.recurringId = r.id =>
                          \E n \in transactions' :
                              /\ n.id = t.id
                              /\ n.description = r.description
                              /\ n.categoryId = r.categoryId
                              /\ n.amount * n.amount = r.amount * r.amount
                              /\ (t.type = "expense" => n.amount <= 0)
                              /\ (t.type = "income" => n.amount >= 0)]_vars

\* An edit with impactPast = true changed the template's type, and the
\* template has a transaction of the type it had before.
C12_Witness ==
    /\ Edited
    /\ lastEdit.impactPast
    /\ \E r \in recurring :
          /\ r.id = lastEdit.id
          /\ \E t \in transactions :
                /\ t.recurringId = r.id
                /\ t.type # r.type
                /\ t.description = r.description

(* C13: a template edit keeps the id, date, type and recurringId of every    *)
(* transaction, keeps the transactions of the other templates as they are,   *)
(* and with impactPast = true and no transaction of the template it changes  *)
(* no transaction.                                                           *)
C13_PropagationFrame ==
    [][lastOp' = "updateRecurringWithImpact" =>
          /\ Cardinality(transactions') = Cardinality(transactions)
          /\ \A t \in transactions :
                 \E n \in transactions' :
                     /\ n.id = t.id
                     /\ n.date = t.date
                     /\ n.type = t.type
                     /\ n.recurringId = t.recurringId
          /\ {t \in transactions' : t.recurringId # lastEdit'.id}
                = {t \in transactions : t.recurringId # lastEdit'.id}
          /\ (lastEdit'.impactPast
                 /\ ~\E t \in transactions : t.recurringId = lastEdit'.id)
               => transactions' = transactions]_vars

\* An edit with impactPast = true rewrote the transactions of one template
\* while another template has transactions of its own.
C13_Witness ==
    /\ Edited
    /\ lastEdit.impactPast
    /\ \E r \in recurring :
          /\ r.id = lastEdit.id
          /\ \E t \in transactions :
                t.recurringId = r.id /\ t.description = r.description
    /\ \E t \in transactions : t.recurringId # lastEdit.id

(* C14: applying a template edit twice gives the ledger of applying it once; *)
(* for an edit with impactPast = false the transactions of past months are   *)
(* the same whether the materializer runs before or after the edit; for an   *)
(* edit with impactPast = true followed by the materializer every            *)
(* transaction of the template carries the new values.                       *)
C14_Commutes ==
    ~dirty =>
        \A r \in recurring : \A u \in EditsOf(r) :
            LET edited == updateRecurring(recurring, r.id, u)
            IN  /\ \A flag \in BOOLEAN :
                       /\ propagate(propagate(transactions, r.id, u, flag), r.id, u, flag)
                             = propagate(transactions, r.id, u, flag)
                       /\ updateRecurring(edited, r.id, u) = edited
                /\ pastMonths(afterEffect(edited, transactions))
                      = pastMonths(afterEffect(recurring, transactions))
                /\ \A t \in afterEffect(edited, propagate(transactions, r.id, u, TRUE)) :
                       t.recurringId = r.id =>
                           /\ t.description = u.description
                           /\ t.categoryId = u.categoryId
                           /\ t.amount * t.amount = u.amount * u.amount

----------------------------------------------------------------------------
(* Vocabulary of the properties of the figures *)

RECURSIVE Total(_)
Total(S) ==
    IF S = {} THEN 0
    ELSE LET t == CHOOSE x \in S : TRUE IN t.amount + Total(S \ {t})

\* The sum of the amounts of S without their signs.
AbsTotal(S) ==
    Total({[t EXCEPT !.amount = IF t.amount < 0 THEN 0 - t.amount ELSE t.amount] : t \in S})

monthOfToday == today.y * 12 + (today.m - 1)

\* The transaction is dated within the selected period, both ends included.
InPeriod(t) ==
    CASE filterPeriod = "all"   -> TRUE
      [] filterPeriod = "month" -> monthKey(t.date) = monthOfToday
      [] filterPeriod = "year"  -> t.date.year = today.y
      [] OTHER -> /\ strKey(customRange.start) <= strKey(t.date)
                  /\ strKey(t.date) <= strKey(customRange.end)

Inverted == filterPeriod = "custom" /\ strKey(customRange.start) > strKey(customRange.end)

expensesOf(cat) == {t \in transactions : t.type = "expense" /\ t.categoryId = cat}

\* This month's spending of a category, and its spending over the twelve
\* calendar months before this one.
spentThisMonth(cat) == AbsTotal({t \in expensesOf(cat) : monthKey(t.date) = monthOfToday})
spentLastYear(cat) ==
    AbsTotal({t \in expensesOf(cat) :
                 /\ monthKey(t.date) >= monthOfToday - 12
                 /\ monthKey(t.date) <= monthOfToday - 1})

budgetAmount(cat) ==
    IF \E b \in budgets : b.categoryId = cat
    THEN (CHOOSE b \in budgets : b.categoryId = cat).amount
    ELSE 0

dayOfToday == IF today.d > 1 THEN today.d ELSE 1
daysInMonthOfToday == getDaysInMonth(today.y, today.m)

(* C15: the totals shown are those of the transactions dated within the      *)
(* selected period, ends included: income the sum of the income amounts,     *)
(* expense the sum of the expense magnitudes, balance their difference,      *)
(* fixed the recurring part of expense and variable the rest; January with   *)
(* 5000, -1200 recurring and -300 gives 5000, 1500, 1200, 300 and 3500.      *)
C15_PeriodTotals ==
    shown.rendered =>
        LET sel      == {t \in transactions : InPeriod(t)}
            incomes  == {t \in sel : t.type = "income"}
            expenses == {t \in sel : t.type = "expense"}
            st       == shown.stats
        IN  /\ ~shown.threw
            /\ st.income = Total(incomes)
            /\ st.expense = AbsTotal(expenses)
            /\ st.balance = st.income - st.expense
            /\ st.fixedExpense = AbsTotal({t \in expenses : t.isRecurring})
            /\ st.variableExpense = st.expense - st.fixedExpense
            /\ st.fixedExpense >= 0 /\ st.fixedExpense <= st.expense
            /\ (filterPeriod = "month" /\ sel = January) =>
                   st = [income |-> 5000, expense |-> 1500, balance |-> 3500,
                         fixedExpense |-> 1200, variableExpense |-> 300]

\* Templates whose months all lie outside the scan window of every today.
OutOfWindow ==
    {[id |-> "rec-9", active |-> TRUE, description |-> "Conta de Energia", amount |-> 120,
      categoryId |-> "cat-outras-despesas", type |-> "expense", dayOfMonth |-> 5,
      startDate |-> sd, endDate |-> ed] :
        sd \in {[year |-> 2030, month |-> 1, day |-> 1]},
        ed \in {NoDate, [year |-> 2031, month |-> 1, day |-> 1]}}
    \cup
    {[id |-> "rec-9", active |-> TRUE, description |-> "Conta de Energia", amount |-> 120,
      categoryId |-> "cat-outras-despesas", type |-> "expense", dayOfMonth |-> 5,
      startDate |-> NoDate, endDate |-> [year |-> 2020, month |-> 1, day |-> 1]]}

(* C16: a period whose start is after its end is rendered without an error   *)
(* and with all totals 0, a template with no month in its scan window        *)
(* synthesizes nothing, and a budget of 0 is neither over nor going to be.   *)
C16_Degenerate ==
    shown.rendered =>
        /\ Inverted =>
               /\ ~shown.threw
               /\ shown.stats = [income |-> 0, expense |-> 0, balance |-> 0,
                                 fixedExpense |-> 0, variableExpense |-> 0]
        /\ \A item \in OutOfWindow :
               \A fm \in {FutureMonthsApp, FutureMonthsPart005} :
                   launchesOf(item, transactions, today, fm) = {}
        /\ \A c \in DOMAIN shown.cards :
               shown.cards[c].budget = 0 =>
                   ~shown.cards[c].isOver /\ ~shown.cards[c].willBeOver

C18_RunRate ==
    shown.rendered =>
        \A c \in DOMAIN shown.cards :
            LET k == shown.cards[c]
            IN  /\ k.projected.den > 0
                /\ k.projected.num * dayOfToday
                      = spentThisMonth(c) * daysInMonthOfToday * k.projected.den
                /\ k.willBeOver
                      = (k.budget > 0 /\ k.projected.num > k.budget * k.projected.den)
                /\ (today.d = 10 /\ daysInMonthOfToday = 30 /\ k.spent = 300) =>
                       k.projected.num = 900 * k.projected.den

\* 300 spent on day 10 of April against a budget of 500: projected 900, not
\* over yet but going to be.
C18_Witness ==
    /\ shown.rendered
    /\ today.d = 10
    /\ daysInMonthOfToday = 30
    /\ \E c \in DOMAIN shown.cards :
          /\ shown.cards[c].spent = 300
          /\ shown.cards[c].budget = 500
          /\ shown.cards[c].projected.num = 900 * shown.cards[c].projected.den
          /\ shown.cards[c].willBeOver
          /\ ~shown.cards[c].isOver

(* C19: the average of a category is the sum of the magnitudes of its        *)
(* expenses over the twelve calendar months before the month of today,       *)
(* divided by 12 whatever the number of months that have expenses.           *)
C19_RollingAverage ==
    shown.rendered =>
        \A c \in DOMAIN shown.cards :
            /\ shown.cards[c].average.den = 12
            /\ shown.cards[c].average.num = spentLastYear(c)

\* After the import of March 2023 the twelve months of 2023 have 100 each and
\* give 1200 / 12, while the category has expenses in January 2024 too.
C19_Witness ==
    /\ shown.rendered
    /\ ops > 0
    /\ today.m = 1
    /\ \E c \in DOMAIN shown.cards :
          /\ shown.cards[c].average = [num |-> 1200, den |-> 12]
          /\ shown.cards[c].spent > 0

(* C20: in the projection of the next four months, month 0 of a category is  *)
(* its run-rate projection and each of months 1, 2 and 3 is the larger of    *)
(* its twelve-month average and its budget, so not below the budget.         *)
C20_ForwardProjection ==
    shown.rendered =>
        \A c \in DOMAIN shown.projection :
            LET pts == shown.projection[c]
            IN  /\ DOMAIN pts = 0..3
                /\ pts[0].num * dayOfToday
                      = spentThisMonth(c) * daysInMonthOfToday * pts[0].den
                /\ \A i \in 1..3 :
                       /\ pts[i].num >= budgetAmount(c) * pts[i].den
                       /\ pts[i].num * 12
                             = (IF spentLastYear(c) >= 12 * budgetAmount(c)
                                THEN spentLastYear(c) ELSE 12 * budgetAmount(c))
                               * pts[i].den

----------------------------------------------------------------------------
(* Vocabulary of the scan-window properties *)

monthIndex(D) == D.y * 12 + (D.m - 1)

\* The first day, at midnight, of the month with the given index.
firstOfMonth(k) == [y |-> k \div 12, m |-> (k % 12) + 1, d |-> 1, t |-> 0]

\* The month with index k is one the materializer is to fill for template r
\* today: not before the month of startDate (of today - 12 months without a
\* startDate), begun before today + futureMonths months, and begun on or before
\* endDate.
InScanWindow(r, k) ==
    /\ k >= (IF r.startDate # NoDate THEN monthKey(r.startDate)
             ELSE monthIndex(today) - PastMonths)
    /\ isBefore(firstOfMonth(k), addMonths(today, futureMonths))
    /\ (r.endDate # NoDate => ~isAfter(firstOfMonth(k), parseISO(r.endDate)))

WindowMonths == (monthIndex(today) - 14) .. (monthIndex(today) + 15)

hasMonth(txs, r, k) ==
    \E t \in txs : t.recurringId = r.id /\ monthKey(t.date) = k

(* C23: for an active template without startDate and endDate and a ledger    *)
(* without transactions of it, a run synthesizes exactly one transaction for *)
(* each month from the month of today - 12 months to the month of            *)
(* today + 12 months, both included, and none for the month of today + 13.   *)
C23_WalkRange ==
    \A r \in recurring :
        (r.active /\ r.startDate = NoDate /\ r.endDate = NoDate) =>
            LET L == launchesOf(r, {}, today, futureMonths)
            IN  /\ {monthKey(p.date) : p \in L}
                      = (monthIndex(today) - 12) .. (monthIndex(today) + 12)
                /\ Cardinality(L) = 25

(* C24: for a template with an endDate, no synthesized transaction is dated  *)
(* after endDate, compared by day: also not in the month of endDate, when    *)
(* dayOfMonth is later than the day of endDate.                              *)
C24_EndDateByDay ==
    Materialized =>
        \A p \in pending :
            templateOf(p).endDate # NoDate =>
                strKey(p.date) <= strKey(templateOf(p).endDate)

(* C27: when deleteTransaction removed a transaction of an active template,  *)
(* the next materializer run puts back, for every month of the template's    *)
(* scan window that has no transaction of it, the transaction with the same  *)
(* id, built from the fields the template has now.                           *)
C27_DeletedComesBack ==
    [][(lastOp = "deleteTransaction" /\ lastOp' = "materialize") =>
          \A r \in recurring :
              r.active =>
                  \A k \in WindowMonths :
                      (InScanWindow(r, k) /\ ~hasMonth(transactions, r, k)) =>
                          generateRecurringTransaction(r, firstOfMonth(k))
                              \in transactions']_vars

\* A run has put back a month of a template that is earlier than months the
\* template kept: the transaction, of a category the user had chosen or not,
\* was deleted, and it is in the ledger again with the template's fields.
C27_Witness ==
    /\ Materialized
    /\ \E p \in pending : \E t \in transactions \ pending :
          /\ p \in transactions
          /\ parseISO(p.date) # InvalidDate
          /\ t.recurringId = p.recurringId
          /\ monthKey(t.date) > monthKey(p.date)
          /\ templateOf(p).active
          /\ p = generateRecurringTransaction(templateOf(p), parseISO(p.date))

(* C26: the loop of the effect comes to rest in a state where the effect     *)
(* computes no pending transaction: when a run has left the transaction      *)
(* state as it was, so that no further run follows, its pendingLaunches was  *)
(* empty, also for a template whose dayOfMonth some month does not have.     *)
C26_Quiesces ==
    (Materialized /\ ~dirty) => pending = {}

----------------------------------------------------------------------------
(* C29: a POST of one user leaves what GET returns to every other user as it *)
(* was, also when it carries the id of a row the other user owns.            *)
C29_UserIsolation ==
    [][\A userId \in Users :
          lastPost'.userId # userId => GET(db', userId) = GET(db, userId)]_vars

----------------------------------------------------------------------------
(* Vocabulary of the properties of the hook that saves through the handler *)

\* The await of the given action has just returned and its updates are applied.
Resolved(action) == lastOp = "resolve" /\ lastPost.action = action

rowOf(id) == CHOOSE x \in db.transactions : x.item.id = id
localOf(id) == CHOOSE t \in transactions : t.id = id

(* C21: budgets holds at most one Budget per categoryId, whatever updates    *)
(* and category deletions were applied and in whatever order the saves were  *)
(* answered, and when an updateBudget has been applied the Budget of its     *)
(* category has its amount.                                                  *)
C21_OneBudgetPerCategory ==
    /\ \A b1 \in budgets : \A b2 \in budgets :
          b1.categoryId = b2.categoryId => b1 = b2
    /\ Resolved("updateBudget") =>
          \E b \in budgets : /\ b.categoryId = lastPost.body.categoryId
                             /\ b.amount = lastPost.body.amount

\* Two saves of one category overlapped and were applied in the order opposite
\* to the one the handler stored them in: the update applied last replaced the
\* amount of the Budget that was there.
C21_Witness ==
    /\ Resolved("updateBudget")
    /\ net = <<>>
    /\ \E x \in db.budgets :
          /\ x.item.categoryId = lastPost.body.categoryId
          /\ x.item.amount # lastPost.body.amount
    /\ budgets = {lastPost.body}

(* C22: when deleteCategory(id) has completed, no transaction and no budget  *)
(* of the state has the categoryId id.                                       *)
C22_NoDanglingReference ==
    Resolved("deleteCategory") =>
        /\ \A t \in transactions : t.categoryId # lastPost.body.id
        /\ \A b \in budgets : b.categoryId # lastPost.body.id

(* C25: the transaction state never holds two transactions with the same id, *)
(* nor two of one template dated in the same month, also when a run of the   *)
(* materializer started before the append of the run before was applied.     *)
C25_NoDoubleInsert ==
    /\ \A t1 \in transactions : \A t2 \in transactions : t1.id = t2.id => t1 = t2
    /\ \A t1 \in transactions : \A t2 \in transactions :
          (t1.recurringId # "" /\ t1.recurringId = t2.recurringId
              /\ monthOf(t1) = monthOf(t2)) => t1 = t2

\* The append of a second run has been applied: every transaction of its
\* batch of several months was in the state already, one of them with other
\* fields than the batch has.
C25_Witness ==
    /\ Resolved("addTransactions")
    /\ Cardinality(lastPost.body.items) >= 2
    /\ \A item \in lastPost.body.items : \E t \in transactions : t.id = item.id
    /\ \E item \in lastPost.body.items : item \notin transactions

(* C28: when deleteCategory(id) has completed, no recurring template has the *)
(* categoryId id.                                                            *)
C28_TemplatesReassigned ==
    Resolved("deleteCategory") =>
        \A r \in recurring : r.categoryId # lastPost.body.id

(* C30: when addTransactions(items) has succeeded and no other call is       *)
(* awaited, for every id of items the transaction of the state and the row   *)
(* of the handler have the same date, description, amount and categoryId.    *)
C30_LocalMatchesBackend ==
    (Resolved("addTransactions") /\ net = <<>>) =>
        \A item \in lastPost.body.items :
            /\ \E t \in transactions : t.id = item.id
            /\ \E x \in db.transactions : x.item.id = item.id
            /\ localOf(item.id).date = rowOf(item.id).item.date
            /\ localOf(item.id).description = rowOf(item.id).item.description
            /\ localOf(item.id).amount = rowOf(item.id).item.amount
            /\ localOf(item.id).categoryId = rowOf(item.id).item.categoryId

====
